---- MODULE Spec2Model ----
(***************************************************************************)
(* State-machine model of three pieces of nativescript-cloud:              *)
(*   - CloudCodesignService.generateCodesignFiles                          *)
(*       (lib/services/cloud-codesign-service.ts)                          *)
(*   - CleanCloudWorkspace.execute / canExecute                            *)
(*       (lib/commands/clean/clean-cloud-workspace.ts)                     *)
(*   - BuildCommandHelper.buildForPublishingPlatform / getCloudBuildData   *)
(*       (lib/commands/build-command-helper.ts)                            *)
(* Every asynchronous method is cut at its awaits: one action per stretch  *)
(* of code between two calls to a collaborator.  `calls` is the log of the *)
(* collaborator invocations, `trace` the log of $logger.trace.            *)
(***************************************************************************)
EXTENDS Integers, Sequences, FiniteSets, TLC

VARIABLES
    pc,              \* position of the running method
    status,          \* "running" | "returned" | "threw"
    calls,           \* invocations of collaborators, in order
    trace,           \* $logger.trace output, in order
    err,             \* the error thrown to the caller
    \* ---- CloudCodesignService.generateCodesignFiles
    codesignData,    \* argument codesignData
    projectDir,      \* argument projectDir
    buildId,         \* const buildId (0: not generated yet)
    uuidCount,       \* number of uuid.v4() invocations
    codesignRequest, \* request built by prepareCodesignRequest
    pollResult,      \* how waitForServerOperationToFinish ended
    codesignResult,  \* manifest read from codesignResponse.resultUrl
    localCodesignResults, \* paths returned by downloadServerResults
    result,          \* value returned to the caller
    \* ---- CleanCloudWorkspace
    args,            \* argument args
    env,             \* what the process runs in: isInteractive(), inside a project, EULA
    appIdentifier,   \* let appIdentifier
    projectName,     \* let projectName
    \* ---- BuildCommandHelper
    platformArg,     \* argument platformArg
    options,         \* this.$options
    platform,        \* const platform
    buildData        \* const buildData

vars == <<pc, status, calls, trace, err, codesignData, projectDir, buildId,
          uuidCount, codesignRequest, pollResult, codesignResult,
          localCodesignResults, result, args, env, appIdentifier,
          projectName, platformArg, options, platform, buildData>>

codesignVars == <<codesignData, projectDir, buildId, uuidCount, codesignRequest,
                  pollResult, codesignResult, localCodesignResults>>
cleanVars == <<args, env, appIdentifier, projectName>>
buildVars == <<platformArg, options, platform, buildData>>

----------------------------------------------------------------------------
(* Bounds of the model *)

\* longest buildItems list of a manifest
MaxItems == 3
\* longest errors text of a manifest, in tokens
MaxErrLen == 3
\* number of values uuid.v4() can return
NumIds == 2

----------------------------------------------------------------------------
(* JavaScript values *)

Undefined == "<undefined>"

\* a string variable (a sequence of characters) that was never assigned
UnsetString == <<Undefined>>

\* !s for a string-or-undefined value
Falsy(s) == s \in {Undefined, ""}

\* all sequences over S of length at most n
SeqUpTo(S, n) == UNION {[1..k -> S] : k \in 0..n}

\* indexOf that looks at the start of s only
indexOfAtStart(s, needle) ==
    IF Len(needle) <= Len(s) /\ SubSeq(s, 1, Len(needle)) = needle THEN 0 ELSE -1

\* s.indexOf(needle) on token sequences: 0-based position of the first
\* occurrence, -1 when there is none
indexOf(s, needle) ==
    LET hits == {i \in 0..(Len(s) - Len(needle)) :
                    SubSeq(s, i + 1, i + Len(needle)) = needle}
    IN  IF hits = {} THEN -1
        ELSE CHOOSE i \in hits : \A j \in hits : i <= j

----------------------------------------------------------------------------
(* constants.DISPOSITIONS and the texts of cloud-codesign-service.ts *)

CERTIFICATE == "Certificate"
PROVISION == "Provision"
PACKAGE == "PackageZip"
Dispositions == {CERTIFICATE, PROVISION, PACKAGE}

Forbidden403 == <<"403", "Forbidden">>
ServiceUnavailableText ==
    <<"The Code Signing Assistance service is temporary unavailable. Please try again later.">>
CodesignFailedPrefix == <<"Codesign failed. Reason is: ">>
MissingCodesignDataMessage ==
    <<"Codesign failed. Reason is missing code sign data. Apple Id and Apple Id password are required..">>
InvalidProjectPathMessage == <<"Codesign failed. Reason is invalid project path.">>

ErrTokens == {"403", "Forbidden", "x"}
BuildIds == 1..NumIds
ResultUrl == "resultUrl"

NoErr == [kind |-> "none", message |-> <<>>, buildId |-> 0, stderr |-> Undefined]
NoResult == [defined |-> FALSE, buildId |-> 0, stderr |-> Undefined,
             outputFilesPaths |-> <<>>]
NoRequest == [defined |-> FALSE, buildId |-> 0, clean |-> Undefined,
              username |-> Undefined, password |-> Undefined]
NoManifest == [fetched |-> FALSE, buildItems |-> <<>>,
               errors |-> [defined |-> FALSE, text |-> <<>>], stderr |-> Undefined]

Call(op, id, url) == [op |-> op, id |-> id, url |-> url]

\* the calls that go over the network
RemoteOps == {"generateCodesignFiles", "waitForServerOperationToFinish",
              "getObjectFromS3File", "downloadServerResults", "getContentOfS3File"}

\* number of invocations of op so far
Count(op) == Cardinality({i \in 1..Len(calls) : calls[i].op = op})

----------------------------------------------------------------------------
(* CloudCodesignService: pure parts *)

\* validateParameteres without the check of the password
validateParameteresNoPassword(data, dir) ==
    IF ~data.defined \/ Falsy(data.username)
    THEN MissingCodesignDataMessage
    ELSE IF Falsy(dir) THEN InvalidProjectPathMessage
    ELSE <<>>

\* validateParameteres: the message of the error it throws, <<>> when it
\* throws nothing
validateParameteres(data, dir) ==
    IF ~data.defined \/ Falsy(data.username) \/ Falsy(data.password)
    THEN MissingCodesignDataMessage
    ELSE IF Falsy(dir) THEN InvalidProjectPathMessage
    ELSE <<>>

\* codesignData.clean === undefined ? true : codesignData.clean
defaultClean(clean) == IF clean = Undefined THEN "true" ELSE clean

\* a filter that forgets the provisioning profiles
isCertificateItem(b) == b.disposition = CERTIFICATE

\* the predicate handed to _.filter in getServerResults
isCodesignItem(b) == b.disposition = CERTIFICATE \/ b.disposition = PROVISION

\* !result for the array _.filter returns: an array is never falsy
isFalsyArray(a) == FALSE

\* getServerResults: [failed, items]
getServerResults(serverResult) ==
    LET filtered == SelectSeq(serverResult.buildItems, isCodesignItem)
    IN  [failed |-> isFalsyArray(filtered), items |-> filtered]

\* prepareCodesignRequest
prepareCodesignRequest(id, data) ==
    [defined |-> TRUE, buildId |-> id, clean |-> data.clean,
     username |-> data.username, password |-> data.password]

\* a failure reason that loses the errors text of the manifest
failureReasonWithoutErrors(errors) ==
    LET errText == IF errors.defined /\ errors.text # <<>> THEN errors.text ELSE <<>>
    IN  IF indexOf(errText, Forbidden403) > -1 THEN ServiceUnavailableText ELSE <<>>

\* lines 92-96 of executeGeneration: the reason text of the failure
failureReason(errors) ==
    LET errText == IF errors.defined /\ errors.text # <<>> THEN errors.text ELSE <<>>
    IN  IF indexOf(errText, Forbidden403) > -1 THEN ServiceUnavailableText ELSE errText

\* lines 98-99 of executeGeneration: the error thrown for a manifest without items
failureError(manifest) ==
    [kind |-> "failed",
     message |-> CodesignFailedPrefix \o failureReason(manifest.errors) \o <<".">>,
     buildId |-> 0, stderr |-> manifest.stderr]

\* a catch block that rethrows the error as it came
catchAndRethrow(e, id) == e

\* the catch block of generateCodesignFiles: err.buildId = buildId; throw err
catchAndTag(e, id) == [e EXCEPT !.buildId = id]

\* an error raised by a collaborator
collaboratorError(kind) ==
    [kind |-> kind, message |-> <<kind>>, buildId |-> 0, stderr |-> Undefined]

----------------------------------------------------------------------------
(* CloudCodesignService: inputs *)

CodesignDatas ==
    {[defined |-> FALSE, username |-> Undefined, password |-> Undefined,
      clean |-> Undefined, platform |-> Undefined]}
    \cup [defined : {TRUE}, username : {Undefined, "", "appleId"},
          password : {Undefined, "", "secret"},
          clean : {Undefined}, platform : {"ios"}]

ProjectDirs == {Undefined, "", "/project"}

\* buildItems lists: the k-th item has its own url
BuildItemLists ==
    UNION {{s \in [1..k -> [disposition : Dispositions, url : 1..k]] :
               \A i \in 1..k : s[i].url = i} : k \in 0..MaxItems}

ErrorTexts == SeqUpTo(ErrTokens, MaxErrLen)

Manifests ==
    [fetched : {TRUE}, buildItems : BuildItemLists,
     errors : {[defined |-> FALSE, text |-> <<>>]}
              \cup [defined : {TRUE}, text : ErrorTexts],
     stderr : {Undefined, "stderr"}]

----------------------------------------------------------------------------
(* CloudCodesignService.generateCodesignFiles, cut at its awaits *)

Trace(msg, text) == [msg |-> msg, text |-> text]

\* an error leaves executeGeneration through the catch of generateCodesignFiles
ThrowFromExecuteGeneration(e) ==
    /\ err' = catchAndTag(e, buildId)
    /\ status' = "threw"
    /\ pc' = "done"

\* generateCodesignFiles, lines 29-31: validation, default of clean, uuid.v4()
generateCodesignFiles ==
    /\ pc = "generateCodesignFiles"
    /\ LET invalid == validateParameteres(codesignData, projectDir)
       IN  IF invalid # <<>>
           THEN /\ err' = [NoErr EXCEPT !.kind = "validation", !.message = invalid]
                /\ status' = "threw"
                /\ pc' = "done"
                /\ UNCHANGED <<codesignData, buildId, uuidCount>>
           ELSE /\ codesignData' =
                       [codesignData EXCEPT !.clean = defaultClean(codesignData.clean)]
                /\ \E id \in BuildIds : buildId' = id
                /\ uuidCount' = uuidCount + 1
                /\ pc' = "prepare"
                /\ UNCHANGED <<err, status>>
    /\ UNCHANGED <<calls, trace, projectDir, codesignRequest, pollResult,
                   codesignResult, localCodesignResults, result, cleanVars, buildVars>>

\* executeGeneration, lines 75-76: getProjectData and prepareCodesignRequest
executeGenerationPrepare ==
    /\ pc = "prepare"
    /\ calls' = Append(calls, Call("getProjectData", 0, projectDir))
    /\ \/ /\ ThrowFromExecuteGeneration(collaboratorError("getProjectData"))
          /\ UNCHANGED codesignRequest
       \/ /\ codesignRequest' = prepareCodesignRequest(buildId, codesignData)
          /\ pc' = "submit"
          /\ UNCHANGED <<err, status>>
    /\ UNCHANGED <<trace, codesignData, projectDir, buildId, uuidCount, pollResult,
                   codesignResult, localCodesignResults, result, cleanVars, buildVars>>

\* executeGeneration, lines 77-78: the request goes to the server build service
executeGenerationSubmit ==
    /\ pc = "submit"
    /\ calls' = Append(calls, Call("generateCodesignFiles", codesignRequest.buildId, ""))
    /\ \/ /\ ThrowFromExecuteGeneration(collaboratorError("generateCodesignFiles"))
          /\ UNCHANGED trace
       \/ /\ trace' = Append(trace, Trace("Codesign response: ", <<ResultUrl>>))
          /\ pc' = "wait"
          /\ UNCHANGED <<err, status>>
    /\ UNCHANGED <<codesignVars, result, cleanVars, buildVars>>

\* CloudService.waitForServerOperationToFinish: how the poll can end; it
\* throws when it ends in Failed or TimedOut
waitForServerOperationToFinish == {"Completed", "Failed", "TimedOut"}

\* the poll without the catch around it: its failure leaves executeGeneration
executeGenerationWaitRethrows ==
    /\ pc = "wait"
    /\ calls' = Append(calls, Call("waitForServerOperationToFinish", buildId, ""))
    /\ \E r \in waitForServerOperationToFinish :
          /\ pollResult' = r
          /\ IF r = "Completed"
             THEN pc' = "fetch" /\ UNCHANGED <<err, status>>
             ELSE ThrowFromExecuteGeneration(collaboratorError(r))
    /\ UNCHANGED <<trace, codesignData, projectDir, buildId, uuidCount,
                   codesignRequest, codesignResult, localCodesignResults, result,
                   cleanVars, buildVars>>

\* executeGeneration, lines 80-84: the poll and the catch around it
executeGenerationWait ==
    /\ pc = "wait"
    /\ calls' = Append(calls, Call("waitForServerOperationToFinish", buildId, ""))
    /\ \E r \in waitForServerOperationToFinish :
          /\ pollResult' = r
          /\ trace' = IF r = "Completed" THEN trace
                      ELSE Append(trace, Trace("Codesign generation failed with err: ", <<r>>))
    /\ pc' = "fetch"
    /\ UNCHANGED <<err, status, codesignData, projectDir, buildId, uuidCount,
                   codesignRequest, codesignResult, localCodesignResults, result,
                   cleanVars, buildVars>>

\* lines 87-101 for the manifest m
executeGenerationCheck(m) ==
    /\ codesignResult' = m
    /\ IF Len(m.buildItems) = 0
       THEN /\ trace' =
                 IF indexOf(IF m.errors.defined THEN m.errors.text ELSE <<>>,
                            Forbidden403) > -1
                 THEN trace \o <<Trace("Codesign result:", m.errors.text),
                                 Trace("Codesign errors: ", m.errors.text)>>
                 ELSE Append(trace, Trace("Codesign result:", m.errors.text))
            /\ ThrowFromExecuteGeneration(failureError(m))
       ELSE /\ trace' = Append(trace, Trace("Codesign result:", m.errors.text))
            /\ pc' = "download"
            /\ UNCHANGED <<err, status>>

\* executeGeneration, lines 86-101: the manifest is read and judged
executeGenerationFetch ==
    /\ pc = "fetch"
    /\ calls' = Append(calls, Call("getObjectFromS3File", 0, ResultUrl))
    /\ \/ /\ ThrowFromExecuteGeneration(collaboratorError("getObjectFromS3File"))
          /\ UNCHANGED <<trace, codesignResult>>
       \/ \E m \in Manifests : executeGenerationCheck(m)
    /\ UNCHANGED <<codesignData, projectDir, buildId, uuidCount, codesignRequest,
                   pollResult, localCodesignResults, result, cleanVars, buildVars>>

\* CloudService.downloadServerResults: one file per item of getServerResults,
\* paths in the order of the items
downloadServerResults(serverResult) ==
    LET selected == getServerResults(serverResult)
    IN  [failed |-> selected.failed,
         paths |-> [i \in 1..Len(selected.items) |-> selected.items[i]]]

\* executeGeneration, lines 103-111: the files are downloaded
executeGenerationDownload ==
    /\ pc = "download"
    /\ calls' = Append(calls, Call("downloadServerResults", 0, ""))
    /\ LET downloaded == downloadServerResults(codesignResult)
       IN  \/ /\ downloaded.failed
              /\ ThrowFromExecuteGeneration(collaboratorError("getServerResults"))
              /\ UNCHANGED localCodesignResults
           \/ /\ ~downloaded.failed
              /\ ThrowFromExecuteGeneration(collaboratorError("downloadServerResults"))
              /\ UNCHANGED localCodesignResults
           \/ /\ ~downloaded.failed
              /\ localCodesignResults' = downloaded.paths
              /\ pc' = "fullOutput"
              /\ UNCHANGED <<err, status>>
    /\ UNCHANGED <<trace, codesignData, projectDir, buildId, uuidCount, codesignRequest,
                   pollResult, codesignResult, result, cleanVars, buildVars>>

\* executeGeneration, lines 113-123, and the return of generateCodesignFiles
executeGenerationFinish ==
    /\ pc = "fullOutput"
    /\ calls' = Append(calls, Call("getContentOfS3File", 0, ResultUrl))
    /\ \/ /\ ThrowFromExecuteGeneration(collaboratorError("getContentOfS3File"))
          /\ UNCHANGED result
       \/ /\ result' = [defined |-> TRUE, buildId |-> buildId,
                        stderr |-> codesignResult.stderr,
                        outputFilesPaths |-> localCodesignResults]
          /\ status' = "returned"
          /\ pc' = "done"
          /\ UNCHANGED err
    /\ UNCHANGED <<trace, codesignVars, cleanVars, buildVars>>

NoCleanState ==
    /\ args = [defined |-> FALSE, list |-> <<>>]
    /\ env = [interactive |-> FALSE, inProject |-> FALSE, eulaAccepted |-> FALSE]
    /\ appIdentifier = UnsetString
    /\ projectName = UnsetString

NoBuildData == [failed |-> TRUE, kind |-> "none", platform |-> Undefined,
                buildConfiguration |-> Undefined, pathToCertificate |-> <<>>,
                pathToProvision |-> <<>>]

NoBuildState ==
    /\ platformArg = Undefined
    /\ options = [local |-> FALSE]
    /\ platform = Undefined
    /\ buildData = NoBuildData

NoCodesignState ==
    /\ codesignData = [defined |-> FALSE]
    /\ projectDir = Undefined
    /\ buildId = 0
    /\ uuidCount = 0
    /\ codesignRequest = NoRequest
    /\ pollResult = "none"
    /\ codesignResult = NoManifest
    /\ localCodesignResults = <<>>

InitCommon ==
    /\ status = "running"
    /\ calls = <<>>
    /\ trace = <<>>
    /\ err = NoErr
    /\ result = NoResult

InitCodesign ==
    /\ InitCommon
    /\ pc = "generateCodesignFiles"
    /\ codesignData \in CodesignDatas
    /\ projectDir \in ProjectDirs
    /\ buildId = 0
    /\ uuidCount = 0
    /\ codesignRequest = NoRequest
    /\ pollResult = "none"
    /\ codesignResult = NoManifest
    /\ localCodesignResults = <<>>
    /\ NoCleanState
    /\ NoBuildState

NextCodesign ==
    \/ generateCodesignFiles
    \/ executeGenerationPrepare
    \/ executeGenerationSubmit
    \/ executeGenerationWait
    \/ executeGenerationFetch
    \/ executeGenerationDownload
    \/ executeGenerationFinish

SpecCodesign == InitCodesign /\ [][NextCodesign]_vars

----------------------------------------------------------------------------
(* Properties of CloudCodesignService *)

\* t occurs in s as a contiguous run of tokens
Occurs(t, s) == \E i \in 0..(Len(s) - Len(t)) : SubSeq(s, i + 1, i + Len(t)) = t

IsRemote(c) == c.op \in RemoteOps

InvalidCodesignInput ==
    \/ ~codesignData.defined
    \/ codesignData.username \in {Undefined, ""}
    \/ codesignData.password \in {Undefined, ""}
    \/ projectDir \in {Undefined, ""}

ManifestWithoutItems == codesignResult.fetched /\ codesignResult.buildItems = <<>>

\* the errors text of the manifest as the server wrote it ("" when absent)
OriginalErrorsText ==
    IF codesignResult.errors.defined THEN codesignResult.errors.text ELSE <<>>

PollFailed == pollResult \in {"Failed", "TimedOut"}

\* C1: with codesignData missing, username or password empty, or projectDir
\* empty, generateCodesignFiles fails with a validation error and no
\* collaborator is called at all: no request is sent, no poll is started,
\* no manifest or artifact is fetched.
C1_ValidationBeforeAnyRemoteCall ==
    InvalidCodesignInput =>
        /\ \A i \in 1..Len(calls) : ~IsRemote(calls[i])
        /\ calls = <<>>
        /\ buildId = 0
        /\ pc \in {"generateCodesignFiles", "done"}
        /\ pc = "done" => status = "threw" /\ err.kind = "validation"

C1_Witness ==
    /\ pc = "done"
    /\ codesignData.defined
    /\ codesignData.username = "appleId"
    /\ codesignData.password = ""
    /\ projectDir = "/project"
    /\ err.kind = "validation"

\* C2 as stated: a manifest with an empty buildItems list never leads to a
\* download and raises an error whose message contains the original errors
\* text, whatever that text is.
C2_ErrorCarriesOriginalErrorsText ==
    ManifestWithoutItems =>
        /\ Count("downloadServerResults") = 0
        /\ pc = "done" /\ status = "threw" /\ err.kind = "failed"
        /\ Occurs(OriginalErrorsText, err.message)

\* C2 amended: a manifest with an empty buildItems list never leads to a
\* download and raises the failure error; its message contains the original
\* errors text (the empty text when errors is absent) unless that text
\* contains "403 Forbidden", in which case it contains the fixed
\* service-unavailable text instead.
C2_ErrorCarriesErrorsTextUnless403 ==
    ManifestWithoutItems =>
        /\ Count("downloadServerResults") = 0
        /\ pc = "done" /\ status = "threw" /\ err.kind = "failed"
        /\ IF Occurs(Forbidden403, OriginalErrorsText)
           THEN Occurs(ServiceUnavailableText, err.message)
           ELSE err.message = CodesignFailedPrefix \o OriginalErrorsText \o <<".">>

C2_Witness ==
    /\ ManifestWithoutItems
    /\ codesignResult.errors.defined
    /\ codesignResult.errors.text = <<"x", "403">>
    /\ status = "threw"

C4_NoMatchingItemIsFailure ==
    (/\ codesignResult.fetched
     /\ \A i \in 1..Len(codesignResult.buildItems) :
           codesignResult.buildItems[i].disposition \notin {CERTIFICATE, PROVISION})
        => status # "returned"

\* C5: the buildId is generated once, before the first remote call, and the
\* same value is in the codesign request, is passed to polling, is attached
\* to every error raised after its generation and is in the returned result.
C5_OneBuildIdEverywhere ==
    /\ uuidCount <= 1
    /\ buildId # 0 <=> uuidCount = 1
    /\ calls # <<>> => buildId # 0
    /\ codesignRequest.defined => codesignRequest.buildId = buildId
    /\ \A i \in 1..Len(calls) :
          calls[i].op \in {"generateCodesignFiles", "waitForServerOperationToFinish"}
              => calls[i].id = buildId
    /\ (status = "threw" /\ buildId # 0) => err.buildId = buildId
    /\ status = "returned" => result.buildId = buildId /\ buildId # 0

C5_Witness ==
    /\ status = "threw"
    /\ err.kind = "downloadServerResults"
    /\ err.buildId = 2
    /\ Count("waitForServerOperationToFinish") = 1

\* C6: for a manifest without build items whose errors text contains
\* "403 Forbidden" the message of the raised error is the failure prefix
\* followed by exactly the service-unavailable text, the raw errors text is
\* in the trace and not in the message; an errors text without
\* "403 Forbidden" is in the message unchanged.
C6_ForbiddenIsSanitized ==
    (ManifestWithoutItems /\ pc = "done") =>
        IF Occurs(Forbidden403, OriginalErrorsText)
        THEN /\ err.message = CodesignFailedPrefix \o ServiceUnavailableText \o <<".">>
             /\ ~Occurs(OriginalErrorsText, err.message)
             /\ \E i \in 1..Len(trace) :
                   trace[i] = Trace("Codesign errors: ", OriginalErrorsText)
        ELSE /\ err.message = CodesignFailedPrefix \o OriginalErrorsText \o <<".">>
             /\ \A i \in 1..Len(trace) : trace[i].msg # "Codesign errors: "

C6_Witness ==
    /\ ManifestWithoutItems
    /\ pc = "done"
    /\ OriginalErrorsText = <<"x", "403", "Forbidden">>
    /\ err.message = CodesignFailedPrefix \o ServiceUnavailableText \o <<".">>

\* C7: the items selected for download are exactly the buildItems of
\* disposition CERTIFICATE or PROVISION, in the order of the manifest:
\* they are the manifest's items at strictly increasing positions, all of
\* them match, and no matching position is left out.
C7_SelectionIsOrderedFilter ==
    (pc = "fullOutput" \/ status = "returned") =>
    LET items == codesignResult.buildItems
        got == localCodesignResults
    IN  \E f \in [1..Len(got) -> 1..Len(items)] :
           /\ \A i \in 1..Len(got) : got[i] = items[f[i]]
           /\ \A i, j \in 1..Len(got) : i < j => f[i] < f[j]
           /\ \A i \in 1..Len(got) :
                 got[i].disposition \in {CERTIFICATE, PROVISION}
           /\ \A k \in 1..Len(items) :
                 items[k].disposition \in {CERTIFICATE, PROVISION}
                     => \E i \in 1..Len(got) : f[i] = k

C7_Witness ==
    /\ status = "returned"
    /\ Len(codesignResult.buildItems) = 3
    /\ codesignResult.buildItems[1].disposition = PROVISION
    /\ codesignResult.buildItems[2].disposition = PACKAGE
    /\ codesignResult.buildItems[3].disposition = CERTIFICATE
    /\ Len(result.outputFilesPaths) = 2
    /\ result.outputFilesPaths[1].disposition = PROVISION
    /\ result.outputFilesPaths[2].disposition = CERTIFICATE

----------------------------------------------------------------------------
(* CleanCloudWorkspace *)

\* most arguments on the command line
MaxArgs == 3
\* longest argument, in characters
MaxArgLen == 2

COMMAND_REQUIREMENTS_ERROR_MESSAGE ==
    <<"The command should be executed inside project or the app id and project name parameters must be provided.">>

\* strings are sequences of characters here
ArgStrings == SeqUpTo({" ", "a"}, MaxArgLen)
ArgLists == SeqUpTo(ArgStrings, MaxArgs)

\* $projectData after initializeProjectData()
ProjectId == <<"o", "r", "g">>
ProjectName == <<"a", "p", "p">>
\* what the user types at the two prompts (allowEmpty: false)
AppIdAnswers == {<<"i">>, <<"i", " ">>}
ProjectNameAnswers == {<<"n">>}

RECURSIVE trimStart(_)
trimStart(s) == IF s # <<>> /\ Head(s) = " " THEN trimStart(Tail(s)) ELSE s

RECURSIVE trimEnd(_)
trimEnd(s) ==
    IF s # <<>> /\ s[Len(s)] = " " THEN trimEnd(SubSeq(s, 1, Len(s) - 1)) ELSE s

\* String.prototype.trim
trim(s) == trimEnd(trimStart(s))

\* getParameterValue that does not trim
getParameterValueNoTrim(param) == Len(param) > 0

\* getParameterValue: TRUE when param is returned, FALSE when action() is run
getParameterValue(param) == Len(trim(param)) > 0

\* a bound on the arguments that is off by one
argsRejectedOverThree(a) == ~a.defined \/ Len(a.list) > 3

\* canExecute, line 44: !args || args.length > 2
argsRejected(a) == ~a.defined \/ Len(a.list) > 2

CleanCall(op, appId, name) == [op |-> op, appIdentifier |-> appId, projectName |-> name]

ThrowFromCommand(kind, message) ==
    /\ err' = [NoErr EXCEPT !.kind = kind, !.message = message]
    /\ status' = "threw"
    /\ pc' = "done"

\* execute, lines 19-25: the project data is read when there are no arguments
execute ==
    /\ pc = "execute"
    /\ IF Len(args.list) = 0
       THEN /\ calls' = Append(calls, CleanCall("initializeProjectData", <<>>, <<>>))
            /\ IF env.inProject
               THEN /\ appIdentifier' = ProjectId
                    /\ projectName' = ProjectName
                    /\ pc' = "cleanupProject"
               ELSE /\ pc' = "appIdentifier"
                    /\ UNCHANGED <<appIdentifier, projectName>>
       ELSE /\ pc' = "appIdentifier"
            /\ UNCHANGED <<calls, appIdentifier, projectName>>
    /\ UNCHANGED <<status, trace, err, result, args, env, codesignVars, buildVars>>

\* promptForAppId / promptForProjectName, lines 53-55 and 61-63:
\* the message of the error thrown, <<>> when the prompt is shown
promptRefused(isInteractive) ==
    IF ~isInteractive THEN COMMAND_REQUIREMENTS_ERROR_MESSAGE ELSE <<>>

\* execute, lines 27, 32, 36: appIdentifier from args[0] or from promptForAppId
executeAppIdentifier ==
    /\ pc = "appIdentifier"
    /\ IF Len(args.list) >= 1 /\ getParameterValue(args.list[1])
       THEN /\ appIdentifier' = args.list[1]
            /\ pc' = "projectName"
            /\ UNCHANGED <<calls, status, err>>
       ELSE IF promptRefused(env.interactive) # <<>>
       THEN /\ ThrowFromCommand("failWithoutHelp", promptRefused(env.interactive))
            /\ UNCHANGED <<calls, appIdentifier>>
       ELSE /\ calls' = Append(calls, CleanCall("getString", <<"App Id:">>, <<>>))
            /\ \E answer \in AppIdAnswers : appIdentifier' = answer
            /\ pc' = "projectName"
            /\ UNCHANGED <<status, err>>
    /\ UNCHANGED <<trace, result, args, env, projectName, codesignVars, buildVars>>

\* execute, lines 28, 33, 37: projectName from args[1] or from promptForProjectName
executeProjectName ==
    /\ pc = "projectName"
    /\ IF Len(args.list) >= 2 /\ getParameterValue(args.list[2])
       THEN /\ projectName' = args.list[2]
            /\ pc' = "cleanupProject"
            /\ UNCHANGED <<calls, status, err>>
       ELSE IF promptRefused(env.interactive) # <<>>
       THEN /\ ThrowFromCommand("failWithoutHelp", promptRefused(env.interactive))
            /\ UNCHANGED <<calls, projectName>>
       ELSE /\ calls' = Append(calls, CleanCall("getString", <<"Project name:">>, <<>>))
            /\ \E answer \in ProjectNameAnswers : projectName' = answer
            /\ pc' = "cleanupProject"
            /\ UNCHANGED <<status, err>>
    /\ UNCHANGED <<trace, result, args, env, appIdentifier, codesignVars, buildVars>>

\* execute, line 40: cleanupProject({ appIdentifier, projectName })
executeCleanupProject ==
    /\ pc = "cleanupProject"
    /\ calls' = Append(calls, CleanCall("cleanupProject", appIdentifier, projectName))
    /\ \/ ThrowFromCommand("cleanupProject", <<"cleanupProject">>)
       \/ /\ status' = "returned"
          /\ pc' = "done"
          /\ UNCHANGED err
    /\ UNCHANGED <<trace, result, cleanVars, codesignVars, buildVars>>

\* canExecute, lines 44-46 and the call of ensureEulaIsAccepted
canExecute ==
    /\ pc = "canExecute"
    /\ IF argsRejected(args)
       THEN /\ result' = [defined |-> TRUE, value |-> FALSE]
            /\ status' = "returned"
            /\ pc' = "done"
            /\ UNCHANGED calls
       ELSE /\ calls' = Append(calls, CleanCall("ensureEulaIsAccepted", <<>>, <<>>))
            /\ pc' = "ensureEulaIsAccepted"
            /\ UNCHANGED <<result, status>>
    /\ UNCHANGED <<trace, err, cleanVars, codesignVars, buildVars>>

\* canExecute, lines 48-49: the EULA check settles
canExecuteAfterEula ==
    /\ pc = "ensureEulaIsAccepted"
    /\ IF env.eulaAccepted
       THEN /\ result' = [defined |-> TRUE, value |-> TRUE]
            /\ status' = "returned"
            /\ pc' = "done"
            /\ UNCHANGED err
       ELSE /\ ThrowFromCommand("ensureEulaIsAccepted", <<"EULA is not accepted">>)
            /\ UNCHANGED result
    /\ UNCHANGED <<calls, trace, cleanVars, codesignVars, buildVars>>

InitClean ==
    /\ InitCommon
    /\ NoCodesignState
    /\ NoBuildState
    /\ appIdentifier = UnsetString
    /\ projectName = UnsetString
    /\ pc = "execute"
    /\ args \in [defined : {TRUE}, list : ArgLists]
    /\ env \in [interactive : BOOLEAN, inProject : BOOLEAN, eulaAccepted : {TRUE}]

NextClean ==
    \/ execute
    \/ executeAppIdentifier
    \/ executeProjectName
    \/ executeCleanupProject

InitCanExecute ==
    /\ InitCommon
    /\ NoCodesignState
    /\ NoBuildState
    /\ appIdentifier = UnsetString
    /\ projectName = UnsetString
    /\ pc = "canExecute"
    /\ args \in {[defined |-> FALSE, list |-> <<>>]}
                \cup [defined : {TRUE}, list : ArgLists]
    /\ env \in [interactive : BOOLEAN, inProject : {FALSE}, eulaAccepted : BOOLEAN]

NextCanExecute ==
    \/ canExecute
    \/ canExecuteAfterEula

SpecCanExecute == InitCanExecute /\ [][NextCanExecute]_vars

SpecClean == InitClean /\ [][NextClean]_vars

----------------------------------------------------------------------------
(* Properties of CleanCloudWorkspace *)

\* s is empty or consists of white space only
Blank(s) == \A i \in 1..Len(s) : s[i] = " "

\* execute has to prompt for a value
HasToPrompt ==
    \/ Len(args.list) = 0 /\ ~env.inProject
    \/ Len(args.list) = 1
    \/ Len(args.list) >= 2 /\ (Blank(args.list[1]) \/ Blank(args.list[2]))

\* C8: execute calls cleanupProject at most once, with an app identifier and
\* a project name that were both obtained (neither unset nor blank); it
\* reads the project data only when there are no arguments; when a value has
\* to be prompted for and the session is not interactive it fails with the
\* command-requirements message and never calls cleanupProject.
C8_CleanupOnlyWithBothValues ==
    /\ Count("cleanupProject") <= 1
    /\ \A i \in 1..Len(calls) : calls[i].op = "cleanupProject" =>
          /\ calls[i].appIdentifier # UnsetString
          /\ calls[i].projectName # UnsetString
          /\ calls[i].appIdentifier = appIdentifier
          /\ calls[i].projectName = projectName
    /\ Count("initializeProjectData") > 0 => Len(args.list) = 0
    /\ (HasToPrompt /\ ~env.interactive) =>
          /\ Count("cleanupProject") = 0
          /\ Count("getString") = 0
          /\ pc = "done" =>
                status = "threw" /\ err.message = COMMAND_REQUIREMENTS_ERROR_MESSAGE

C8_Witness ==
    /\ pc = "done"
    /\ Len(args.list) = 2
    /\ args.list[1] = <<"a">>
    /\ args.list[2] = <<" ", " ">>
    /\ ~env.interactive
    /\ err.message = COMMAND_REQUIREMENTS_ERROR_MESSAGE

\* C9: canExecute returns true only after ensureEulaIsAccepted was called
\* and completed; with args absent or longer than two it returns false and
\* the EULA check is not invoked; when the EULA check fails it does not
\* return true.
C9_TrueOnlyAfterEula ==
    /\ (result.defined /\ result.value) =>
          /\ Count("ensureEulaIsAccepted") = 1
          /\ env.eulaAccepted
          /\ args.defined /\ Len(args.list) <= 2
    /\ (~args.defined \/ Len(args.list) > 2) =>
          /\ Count("ensureEulaIsAccepted") = 0
          /\ pc = "done" => status = "returned" /\ result.defined /\ ~result.value
    /\ (~env.eulaAccepted /\ pc = "done" /\ args.defined /\ Len(args.list) <= 2) =>
          status = "threw" /\ ~result.defined

C9_Witness ==
    /\ pc = "done"
    /\ args.defined
    /\ Len(args.list) = 3
    /\ result.defined
    /\ ~result.value
    /\ env.eulaAccepted

----------------------------------------------------------------------------
(* BuildCommandHelper *)

\* CLOUD_BUILD_CONFIGURATIONS
RELEASE == "Release"
DEBUG == "Debug"

\* the platform arguments tried
PlatformArgs == {"android", "Android", "ios", "iOS", "wp8", "tizen", Undefined}

\* $mobileHelper.validatePlatformName: the name in its canonical case, or a failure
validatePlatformName(name) ==
    CASE name \in {"android", "Android"} -> [failed |-> FALSE, platform |-> "Android"]
      [] name \in {"ios", "iOS"} -> [failed |-> FALSE, platform |-> "iOS"]
      [] name \in {"wp8", "WP8"} -> [failed |-> FALSE, platform |-> "WP8"]
      [] OTHER -> [failed |-> TRUE, platform |-> Undefined]

isAndroidPlatform(p) == p = "Android"
isiOSPlatform(p) == p = "iOS"

\* x ? path.resolve(x) : ""
resolveOrEmpty(x) == IF Falsy(x) THEN <<>> ELSE <<"/cwd", x>>

\* getCloudBuildData, of the options it reads
getCloudBuildData(name, opts) ==
    LET valid == validatePlatformName(name)
    IN  IF valid.failed
        THEN [NoBuildData EXCEPT !.kind = "validatePlatformName"]
        ELSE IF ~isAndroidPlatform(valid.platform) /\ ~isiOSPlatform(valid.platform)
        THEN [NoBuildData EXCEPT !.kind = "failWithoutHelp", !.platform = valid.platform]
        ELSE [failed |-> FALSE, kind |-> "none", platform |-> valid.platform,
              buildConfiguration |-> IF opts.release THEN RELEASE ELSE DEBUG,
              pathToCertificate |->
                  IF isAndroidPlatform(valid.platform)
                  THEN resolveOrEmpty(opts.keyStorePath)
                  ELSE resolveOrEmpty(opts.certificate),
              pathToProvision |-> resolveOrEmpty(opts.provision)]

\* the build data left as getCloudBuildData made it
keepBuildConfiguration(data) == data

\* buildForPublishingPlatform, line 101
overrideBuildConfiguration(data) == [data EXCEPT !.buildConfiguration = RELEASE]

\* the release flag of the options object of lines 84-98
localBuildRelease(opts) == TRUE

BuildCall(op, p, release, configuration) ==
    [op |-> op, platform |-> p, release |-> release, buildConfiguration |-> configuration]

\* buildForPublishingPlatform, lines 82-106, up to the call of a build service
buildForPublishingPlatform ==
    /\ pc = "buildForPublishingPlatform"
    /\ LET valid == validatePlatformName(platformArg)
       IN  IF valid.failed
           THEN /\ ThrowFromCommand("validatePlatformName", <<"validatePlatformName">>)
                /\ UNCHANGED <<calls, platform, buildData>>
           ELSE /\ platform' = valid.platform
                /\ IF options.local
                   THEN /\ calls' = Append(calls,
                               BuildCall("localBuildService.build", valid.platform,
                                         localBuildRelease(options), Undefined))
                        /\ pc' = "localBuild"
                        /\ UNCHANGED <<status, err, buildData>>
                   ELSE LET data == getCloudBuildData(valid.platform, options)
                        IN  IF data.failed
                            THEN /\ ThrowFromCommand(data.kind, <<data.kind>>)
                                 /\ buildData' = data
                                 /\ UNCHANGED calls
                            ELSE /\ buildData' = overrideBuildConfiguration(data)
                                 /\ calls' = Append(calls,
                                        BuildCall("nsCloudBuildService.build",
                                                  buildData'.platform, Undefined,
                                                  buildData'.buildConfiguration))
                                 /\ pc' = "cloudBuild"
                                 /\ UNCHANGED <<status, err>>
    /\ UNCHANGED <<trace, result, platformArg, options, codesignVars, cleanVars>>

\* line 84: await this.$localBuildService.build(...), and line 109
localBuildSettles ==
    /\ pc = "localBuild"
    /\ \/ /\ ThrowFromCommand("localBuildService.build", <<"localBuildService.build">>)
          /\ UNCHANGED result
       \/ /\ result' = [defined |-> TRUE, packagePath |-> <<"local", platform>>]
          /\ status' = "returned"
          /\ pc' = "done"
          /\ UNCHANGED err
    /\ UNCHANGED <<calls, trace, buildVars, codesignVars, cleanVars>>

\* lines 102-106: (await this.$nsCloudBuildService.build(...)).qrData.originalUrl,
\* and line 109
cloudBuildSettles ==
    /\ pc = "cloudBuild"
    /\ \/ /\ ThrowFromCommand("nsCloudBuildService.build", <<"nsCloudBuildService.build">>)
          /\ UNCHANGED result
       \/ /\ result' = [defined |-> TRUE, packagePath |-> <<"originalUrl", platform>>]
          /\ status' = "returned"
          /\ pc' = "done"
          /\ UNCHANGED err
    /\ UNCHANGED <<calls, trace, buildVars, codesignVars, cleanVars>>

BuildOptions ==
    [local : BOOLEAN, release : BOOLEAN, keyStorePath : {Undefined, "my.keystore"},
     certificate : {Undefined, "cert.p12"}, provision : {Undefined, "app.mobileprovision"}]

InitBuild ==
    /\ InitCommon
    /\ NoCodesignState
    /\ NoCleanState
    /\ pc = "buildForPublishingPlatform"
    /\ platformArg \in PlatformArgs
    /\ options \in BuildOptions
    /\ platform = Undefined
    /\ buildData = NoBuildData

NextBuild ==
    \/ buildForPublishingPlatform
    \/ localBuildSettles
    \/ cloudBuildSettles

SpecBuild == InitBuild /\ [][NextBuild]_vars

\* C10: buildForPublishingPlatform calls at most one build service, the one
\* the local option selects, and exactly one when it returns; the build is a
\* release build whatever the release option says; with a platform that is
\* neither Android nor iOS the cloud path fails in getCloudBuildData and the
\* cloud build service is not called.
C10_OneReleaseBuild ==
    LET local == Count("localBuildService.build")
        cloud == Count("nsCloudBuildService.build")
    IN  /\ local + cloud <= 1
        /\ local = 1 => options.local
        /\ cloud = 1 => ~options.local
        /\ status = "returned" => local + cloud = 1
        /\ \A i \in 1..Len(calls) :
              /\ calls[i].op = "localBuildService.build" => calls[i].release = TRUE
              /\ calls[i].op = "nsCloudBuildService.build" =>
                    calls[i].buildConfiguration = RELEASE
        /\ (~options.local /\ platformArg \notin {"android", "Android", "ios", "iOS"}) =>
              /\ cloud = 0
              /\ pc = "done" => status = "threw"
        /\ (~options.local /\ platform = "WP8" /\ pc = "done") =>
              err.kind = "failWithoutHelp"

C10_Witness ==
    /\ status = "returned"
    /\ ~options.local
    /\ ~options.release
    /\ Count("nsCloudBuildService.build") = 1
    /\ buildData.buildConfiguration = RELEASE

====
